---- MODULE Spec2Model ----
(***************************************************************************)
(* The generated CRUD handlers of elk-example (ent/http): Create and Read  *)
(* of Group, Pet and User, over the ent client's storage.                  *)
(*                                                                         *)
(* A Go pointer or slice that may be nil is a set: {} is nil, {v} is a     *)
(* pointer to v.  A response that was never written has status 0.          *)
(*                                                                         *)
(* Requests run concurrently and meet only in the storage.  A Create makes *)
(* two storage calls, so it is two steps (Create, Reload) and other        *)
(* requests can run between them; a Read makes one and is one step.  The   *)
(* request that finished is held in `last` until the handler returns       *)
(* (Return); nothing reads `last`, so holding the other requests back      *)
(* meanwhile loses no interleaving of the storage calls.                   *)
(*                                                                         *)
(* The json decoder, the validator, the database and sheriff are outside   *)
(* the handlers: what they report (a body that is no JSON, an              *)
(* InvalidValidationError, a storage error, NotSingular, a serialization   *)
(* error) is an input of the step, whether or not the libraries in use can *)
(* produce it for these types.                                             *)
(***************************************************************************)
EXTENDS Integers, Sequences, FiniteSets, TLC

\* ------------------------------------------------------------- bounds
MaxRows == 2        \* rows ever inserted, over all tables
MaxInflight == 2    \* Create requests between their save and their reload

Kinds == {"group", "pet", "user"}
\* The {id} url parameters tried: not numbers, not positive, ids of rows and
\* ids of no row.
IdParams ==
    {<<"a">>, <<"1", "a">>, <<"-">>, <<"0">>, <<"-", "1">>, <<"1">>, <<"2">>,
     <<"+", "1">>, <<"0", "1">>, <<"1", "0">>}

\* Fields a create request body can carry, per kind.
Names == [group |-> {}, pet |-> {"Bob"}, user |-> {"Elk"}]
Ages == [group |-> {}, pet |-> {-2, 0, 3}, user |-> {30}]
Owners == {1, 2}
PetLists == {<<>>, <<1>>}

Opt(S) == {{}} \cup {{v} : v \in S}

\* The decoded request structs.
GroupCreateRequest == {[name |-> {}, age |-> {}, owner |-> {}, pets |-> {}]}
PetCreateRequest ==
    [name : Opt(Names.pet), age : Opt(Ages.pet), owner : Opt(Owners), pets : {{}}]
UserCreateRequest ==
    [name : Opt(Names.user), age : Opt(Ages.user), owner : {{}}, pets : Opt(PetLists)]
CreateRequest(kind) ==
    CASE kind = "group" -> GroupCreateRequest
      [] kind = "pet" -> PetCreateRequest
      [] kind = "user" -> UserCreateRequest

\* A request body: {} is a body that is no JSON, {d} decodes to d.
Bodies(kind) == Opt(CreateRequest(kind))

VARIABLES
    groups,     \* rows of the groups table: [id]
    users,      \* rows of the users table: [id, name, age]
    pets,       \* rows of the pets table: [id, name, age, owner]
    nextId,     \* next auto-increment id, per table
    inflight,   \* Create requests that saved and have not reloaded yet
    last,       \* the request that finished last, with all it did
    created     \* entity of the last 200 Create response, until the next write

vars == <<groups, users, pets, nextId, inflight, last, created>>

\* ------------------------------------------------------------- strconv.Atoi
Digits == <<"0", "1", "2", "3", "4", "5", "6", "7", "8", "9">>
IsDigit(c) == \E i \in 1..10 : Digits[i] = c
DigitVal(c) == (CHOOSE i \in 1..10 : Digits[i] = c) - 1

RECURSIVE ParseDigits(_)
ParseDigits(s) ==
    IF s = <<>> THEN 0
    ELSE ParseDigits(SubSeq(s, 1, Len(s) - 1)) * 10 + DigitVal(s[Len(s)])

Atoi(s) ==
    LET signed == s # <<>> /\ s[1] \in {"+", "-"}
        ds == IF signed THEN Tail(s) ELSE s
    IN  IF ds = <<>> \/ \E i \in 1..Len(ds) : ~IsDigit(ds[i])
        THEN [val |-> 0, err |-> TRUE]
        ELSE [val |-> IF signed /\ s[1] = "-" THEN 0 - ParseDigits(ds)
                      ELSE ParseDigits(ds),
              err |-> FALSE]

\* ------------------------------------------------------------- storage
Table(kind) ==
    CASE kind = "group" -> groups
      [] kind = "pet" -> pets
      [] kind = "user" -> users

\* Query().Where(ID(id)): the rows with that id.
WhereID(kind, id) == {row \in Table(kind) : row.id = id}

\* Only: one row, or NotFound for none and NotSingular for several; the entity
\* is nil with every error.  fault is what the database itself reports.
Only(rows, fault) ==
    IF fault = "StorageError" THEN [ent |-> {}, err |-> "StorageError"]
    ELSE IF fault = "NotSingular" \/ Cardinality(rows) > 1
         THEN [ent |-> {}, err |-> "NotSingular"]
    ELSE IF rows = {} THEN [ent |-> {}, err |-> "NotFound"]
    ELSE [ent |-> rows, err |-> "nil"]

\* Query.Only on the rows of kind with that id; WithPets eager-loads the pets
\* of a user.  An entity is a row with its loaded edges.
Owned(id) == {p \in pets : p.owner = {id}}
Entity(kind, row, withPets) ==
    [row |-> row,
     pets |-> IF withPets /\ kind = "user" THEN Owned(row.id) ELSE {}]
QueryOnly(kind, id, withPets, fault) ==
    Only({Entity(kind, row, withPets) : row \in WhereID(kind, id)}, fault)

\* The ent schema's own checks, run by Save before the insert.
SchemaCheck(kind, b) ==
    CASE kind = "group" -> TRUE
      [] kind = "pet" -> /\ b.name # {}
                         /\ b.age # {}
                         /\ \A a \in b.age : a > 0
                         /\ b.owner # {}
      [] kind = "user" -> b.name # {} /\ b.age # {}

\* The row the builder inserts, under the table's next id.
NewRow(kind, b, id) ==
    CASE kind = "group" -> [id |-> id]
      [] kind = "pet" -> [id |-> id, name |-> CHOOSE n \in b.name : TRUE,
                          age |-> CHOOSE a \in b.age : TRUE, owner |-> b.owner]
      [] kind = "user" -> [id |-> id, name |-> CHOOSE n \in b.name : TRUE,
                           age |-> CHOOSE a \in b.age : TRUE]

\* Foreign keys are enforced (_fk=1): a pet's owner must be a user row, and a
\* pet can be linked to a new user only while it has no owner.
PetIDs(b) == UNION {{l[i] : i \in 1..Len(l)} : l \in b.pets}
ForeignKeysOK_Off(kind, b) == TRUE
ForeignKeysOK(kind, b) ==
    CASE kind = "group" -> TRUE
      [] kind = "pet" -> \A o \in b.owner : \E u \in users : u.id = o
      [] kind = "user" ->
            \A i \in PetIDs(b) : \E p \in pets : p.id = i /\ p.owner = {}

\* Builder.Save: the outcome and the storage after it.  A failed save changes
\* nothing (the insert and its edge updates are one transaction).
Save(kind, b, fault) ==
    LET id == nextId[kind]
        same == [err |-> "nil", id |-> 0, groups |-> groups, users |-> users,
                 pets |-> pets, nextId |-> nextId]
    IN  IF ~SchemaCheck(kind, b) THEN [same EXCEPT !.err = "ValidationError"]
        ELSE IF fault THEN [same EXCEPT !.err = "StorageError"]
        ELSE IF ~ForeignKeysOK(kind, b) THEN [same EXCEPT !.err = "ConstraintError"]
        ELSE [err |-> "nil", id |-> id,
              groups |-> IF kind = "group" THEN groups \cup {NewRow(kind, b, id)}
                         ELSE groups,
              users |-> IF kind = "user" THEN users \cup {NewRow(kind, b, id)}
                        ELSE users,
              pets |-> IF kind = "pet" THEN pets \cup {NewRow(kind, b, id)}
                       ELSE IF kind = "user"
                       THEN {IF p.id \in PetIDs(b) THEN [p EXCEPT !.owner = {id}]
                             ELSE p : p \in pets}
                       ELSE pets,
              nextId |-> [nextId EXCEPT ![kind] = id + 1]]

\* ------------------------------------------------------------- validator
\* validator.Struct on the request struct: one error per field whose tag
\* fails, named by the struct field.
ValidateTag(field, value, required, gt0) ==
    IF required /\ value = {} THEN {<<field, "required">>}
    ELSE IF gt0 /\ \E v \in value : ~(v > 0) THEN {<<field, "gt">>}
    ELSE {}

ValidateStruct_NoOwnerRule(kind, d) ==
    IF kind = "pet" THEN ValidateTag("Age", d.age, TRUE, TRUE) ELSE {}
ValidateStruct_FailFast(kind, d) ==
    IF kind = "pet"
    THEN IF ValidateTag("Age", d.age, TRUE, TRUE) # {}
         THEN ValidateTag("Age", d.age, TRUE, TRUE)
         ELSE ValidateTag("Owner", d.owner, TRUE, FALSE)
    ELSE {}
ValidateStruct(kind, d) ==
    IF kind = "pet"
    THEN ValidateTag("Age", d.age, TRUE, TRUE) \cup
         ValidateTag("Owner", d.owner, TRUE, FALSE)
    ELSE {}

\* ------------------------------------------------------------- sheriff
SerializationGroups == [group |-> {"group"}, pet |-> {"pet"}, user |-> {"user"}]
\* The pets edge of a user carries the group "user"; no other edge is tagged.
PetsEdgeGroups_Untagged == {}
PetsEdgeGroups == {"user"}

PetView(p) ==
    [kind |-> "pet", id |-> p.id, name |-> {p.name}, age |-> {p.age},
     hasEdges |-> TRUE, edges |-> {}]

View(kind, e, active) ==
    CASE kind = "group" ->
            [kind |-> kind, id |-> e.row.id, name |-> {}, age |-> {},
             hasEdges |-> FALSE, edges |-> {}]
      [] kind = "pet" -> PetView(e.row)
      [] kind = "user" ->
            [kind |-> kind, id |-> e.row.id, name |-> {e.row.name},
             age |-> {e.row.age}, hasEdges |-> TRUE,
             edges |-> IF PetsEdgeGroups \cap active # {}
                       THEN {PetView(p) : p \in e.pets} ELSE {}]

\* sheriff.Marshal of an entity under the handler's groups.
Marshal(kind, e, fault) ==
    IF fault THEN [j |-> {}, err |-> TRUE]
    ELSE [j |-> {View(kind, e, SerializationGroups[kind])}, err |-> FALSE]

\* ------------------------------------------------------------- requests
\* What one request has done so far: its log lines, its storage calls with
\* their errors, and the response it wrote.
NoResponse == [msg |-> "", errors |-> {}, entity |-> {}]
NewRequest(op, kind, param, body) ==
    [op |-> op, kind |-> kind, param |-> param, body |-> body, eid |-> 0,
     validation |-> "none", marshal |-> "none",
     status |-> 0, resp |-> NoResponse, writes |-> 0, panicked |-> FALSE,
     log |-> <<>>, calls |-> <<>>, prev |-> {}]

\* l.Info / l.Error
Log(rq, level, msg) ==
    [rq EXCEPT !.log = Append(@, [level |-> level, msg |-> msg])]

\* A call of the ent client that reaches the storage.
Call_Retry(rq, op, err) ==
    [rq EXCEPT !.calls = IF err = "nil" THEN Append(@, [op |-> op, err |-> err])
                         ELSE @ \o <<[op |-> op, err |-> err], [op |-> op, err |-> err]>>]
Call(rq, op, err) == [rq EXCEPT !.calls = Append(@, [op |-> op, err |-> err])]

\* render.OK / BadRequest / NotFound / InternalServerError: the first write
\* fixes the status.
Render(rq, status, msg, errors, entity) ==
    [rq EXCEPT !.status = IF rq.writes = 0 THEN status ELSE @,
               !.resp = IF rq.writes = 0
                        THEN [msg |-> msg, errors |-> errors, entity |-> entity]
                        ELSE @,
               !.writes = @ + 1]

\* A nil pointer dereference: the handler is aborted where it stands, and
\* the server closes the connection without a response.
Panic(rq) == [rq EXCEPT !.panicked = TRUE]

Finished(rq) == rq.writes > 0 \/ rq.panicked

\* stripEntError: the ent error message without its prefix.
StripEntError(err) == IF err = "NotFound" THEN "not found" ELSE "not singular"

\* The builder after the Set calls: every field the request carries.
Builder(kind, d) ==
    [name |-> d.name, age |-> d.age, owner |-> d.owner, pets |-> d.pets]

\* render.InternalServerError(w, r, nil): the handler hands the renderer no
\* error, so the body of a 500 carries nothing of err.
InternalErrorBody_Leak(err) == err
InternalErrorBody(err) == ""

\* Create answers every failed save alike.
SaveStatus_Constraint400(err) == IF err = "ConstraintError" THEN 400 ELSE 500
SaveStatus(err) == 500

\* Create, up to and with the save.  invalid says that the validator could
\* not validate at all (InvalidValidationError).
CreateSave(kind, body, invalid, fault) ==
    LET rq == NewRequest("Create", kind, <<>>, body)
    IN  IF body = {}
        THEN Render(Log(rq, "error", "error decoding json"),
                    400, "invalid json string", {}, {})
        ELSE
        LET d == CHOOSE x \in body : TRUE
            verr == ValidateStruct(kind, d)
        IN  IF invalid
            THEN Render(Log([rq EXCEPT !.validation = "fault"], "error",
                            "error validating request data"),
                        500, InternalErrorBody("InvalidValidationError"), {}, {})
            ELSE IF verr # {}
            THEN Render(Log([rq EXCEPT !.validation = "invalid"], "info",
                            "validation failed"), 400, "", verr, {})
            ELSE
            LET s == Save(kind, Builder(kind, d), fault)
                rs == Call([rq EXCEPT !.validation = "valid"], "Save", s.err)
            IN  IF s.err # "nil"
                THEN Render(Log(rs, "error", "error saving"),
                            SaveStatus(s.err), InternalErrorBody(s.err), {}, {})
                ELSE [rs EXCEPT !.eid = s.id]

\* Create, from the reload on.  The error branches read e.ID of the entity
\* the reload returned.
CreateReload(rq, fault, mfault) ==
    LET q == QueryOnly(rq.kind, rq.eid, FALSE, fault)
        rs == Call(rq, "Only", q.err)
    IN  IF q.err # "nil"
        THEN IF q.ent = {} THEN Panic(rs)
             ELSE IF q.err = "NotFound"
             THEN Render(Log(rs, "info", StripEntError(q.err)),
                         404, StripEntError(q.err), {}, {})
             ELSE Render(Log(rs, "error", "error fetching from db"),
                         500, InternalErrorBody(q.err), {}, {})
        ELSE
        LET e == CHOOSE x \in q.ent : TRUE
            m == Marshal(rq.kind, e, mfault)
        IN  IF m.err
            THEN Render(Log([rs EXCEPT !.marshal = "fault"], "error",
                            "serialization error"),
                        500, InternalErrorBody("SerializationError"), {}, {})
            ELSE Render(Log([rs EXCEPT !.marshal = "ok"], "info", "rendered"),
                        200, "", {}, m.j)

\* Read answers a failed fetch by the kind of its error.
FetchStatus_NotSingular500(err) == IF err = "NotFound" THEN 404 ELSE 500
FetchStatus(err) ==
    CASE err = "NotFound" -> 404
      [] err = "NotSingular" -> 400
      [] OTHER -> 500

\* Only the read of a user eager-loads edges.
WithPets_None == [group |-> FALSE, pet |-> FALSE, user |-> FALSE]
WithPets == [group |-> FALSE, pet |-> FALSE, user |-> TRUE]

\* Read, whole.
ReadHandler(kind, param, fault, mfault) ==
    LET rq == NewRequest("Read", kind, param, {})
        a == Atoi(param)
    IN  IF a.err
        THEN Render(Log(rq, "error", "error getting id from url parameter"),
                    400, "id must be an integer greater zero", {}, {})
        ELSE
        LET q == QueryOnly(kind, a.val, WithPets[kind], fault)
            rs == Call([rq EXCEPT !.eid = a.val], "Only", q.err)
        IN  IF q.err = "NotFound"
            THEN Render(Log(rs, "info", StripEntError(q.err)),
                        FetchStatus(q.err), StripEntError(q.err), {}, {})
            ELSE IF q.err = "NotSingular"
            THEN Render(Log(rs, "error", StripEntError(q.err)),
                        FetchStatus(q.err), StripEntError(q.err), {}, {})
            ELSE IF q.err # "nil"
            THEN Render(Log(rs, "error", "error fetching from db"),
                        FetchStatus(q.err), InternalErrorBody(q.err), {}, {})
            ELSE
            LET e == CHOOSE x \in q.ent : TRUE
                m == Marshal(kind, e, mfault)
            IN  IF m.err
                THEN Render(Log([rs EXCEPT !.marshal = "fault"], "error",
                                "serialization error"),
                        500, InternalErrorBody("SerializationError"), {}, {})
                ELSE Render(Log([rs EXCEPT !.marshal = "ok"], "info", "rendered"),
                            200, "", {}, m.j)

\* ------------------------------------------------------------- actions
\* What the database can report for a fetch besides the rows it holds.
Faults == {"none", "NotSingular", "StorageError"}
\* Rows inserted so far, over all tables.
Inserted == nextId.group + nextId.pet + nextId.user - 3
Idle == NewRequest("none", "group", <<>>, {})

Init ==
    /\ groups = {}
    /\ users = {}
    /\ pets = {}
    /\ nextId = [k \in Kinds |-> 1]
    /\ inflight = {}
    /\ last = Idle
    /\ created = {}

\* A Create request runs from its start through its save.
Create(kind) ==
    \E body \in Bodies(kind), invalid \in BOOLEAN, fault \in BOOLEAN :
        LET rq == CreateSave(kind, body, invalid, fault)
            s == Save(kind, Builder(kind, CHOOSE x \in body : TRUE), fault)
            saved == rq.calls # <<>> /\ rq.calls[1].err = "nil"
        IN  /\ last = Idle
            /\ ~(invalid /\ fault)
            /\ saved => Inserted < MaxRows /\ Cardinality(inflight) < MaxInflight
            /\ groups' = IF saved THEN s.groups ELSE groups
            /\ users' = IF saved THEN s.users ELSE users
            /\ pets' = IF saved THEN s.pets ELSE pets
            /\ nextId' = IF saved THEN s.nextId ELSE nextId
            /\ inflight' = IF Finished(rq) THEN inflight ELSE inflight \cup {rq}
            /\ last' = IF Finished(rq) THEN rq ELSE last
            /\ created' = IF saved THEN {} ELSE created

\* Reload, were it to take the row back when it cannot answer 200.
Reload_Rollback ==
    \E rq \in inflight, fault \in Faults, mfault \in BOOLEAN :
        LET rs == CreateReload(rq, fault, mfault)
            Kept(kind, rows) ==
                IF rs.status # 200 /\ rq.kind = kind
                THEN {x \in rows : x.id # rq.eid} ELSE rows
        IN  /\ last = Idle
            /\ ~(fault # "none" /\ mfault)
            /\ inflight' = inflight \ {rq}
            /\ last' = rs
            /\ created' = IF rs.status = 200
                          THEN {[kind |-> rs.kind, id |-> rs.eid,
                                 entity |-> rs.resp.entity]}
                          ELSE created
            /\ groups' = Kept("group", groups)
            /\ users' = Kept("user", users)
            /\ pets' = Kept("pet", pets)
            /\ UNCHANGED nextId

\* A saved Create request reloads, serializes and responds.
Reload ==
    \E rq \in inflight, fault \in Faults, mfault \in BOOLEAN :
        LET rs == CreateReload(rq, fault, mfault)
        IN  /\ last = Idle
            /\ ~(fault # "none" /\ mfault)
            /\ inflight' = inflight \ {rq}
            /\ last' = rs
            /\ created' = IF rs.status = 200
                          THEN {[kind |-> rs.kind, id |-> rs.eid,
                                 entity |-> rs.resp.entity]}
                          ELSE created
            /\ UNCHANGED <<groups, users, pets, nextId>>

\* Read, were it to take the row it has answered with.
Read_Consume(kind) ==
    \E param \in IdParams, fault \in Faults, mfault \in BOOLEAN :
        LET rs == ReadHandler(kind, param, fault, mfault)
            Left(k, rows) ==
                IF rs.status = 200 /\ k = kind /\ (k = "user" => Owned(rs.eid) = {})
                THEN {x \in rows : x.id # rs.eid} ELSE rows
        IN  /\ last = Idle
            /\ ~(fault # "none" /\ mfault)
            /\ last' = [rs EXCEPT !.prev =
                           IF rs.status = 200
                           THEN UNION {c.entity : c \in
                                   {x \in created : x.kind = kind /\ x.id = rs.eid}}
                           ELSE {}]
            /\ groups' = Left("group", groups)
            /\ users' = Left("user", users)
            /\ pets' = Left("pet", pets)
            /\ UNCHANGED <<nextId, inflight, created>>

\* A Read request, whole: it has one storage call.
Read(kind) ==
    \E param \in IdParams, fault \in Faults, mfault \in BOOLEAN :
        LET rs == ReadHandler(kind, param, fault, mfault)
        IN  /\ last = Idle
            /\ ~(fault # "none" /\ mfault)
            /\ last' = [rs EXCEPT !.prev =
                           IF rs.status = 200
                           THEN UNION {c.entity : c \in
                                   {x \in created : x.kind = kind /\ x.id = rs.eid}}
                           ELSE {}]
            /\ UNCHANGED <<groups, users, pets, nextId, inflight, created>>

\* A Delete request of another client removes a row; a user that still owns
\* pets cannot be removed.
Delete(kind) ==
    \E row \in Table(kind) :
        /\ last = Idle
        /\ kind = "user" => Owned(row.id) = {}
        /\ groups' = IF kind = "group" THEN groups \ {row} ELSE groups
        /\ users' = IF kind = "user" THEN users \ {row} ELSE users
        /\ pets' = IF kind = "pet" THEN pets \ {row} ELSE pets
        /\ created' = {}
        /\ UNCHANGED <<nextId, inflight, last>>

\* The handler returns: the response has left and the request is forgotten.
Return ==
    /\ last # Idle
    /\ last' = Idle
    /\ UNCHANGED <<groups, users, pets, nextId, inflight, created>>

Next ==
    \/ \E kind \in Kinds : Create(kind)
    \/ Reload
    \/ \E kind \in Kinds : Read(kind)
    \/ \E kind \in Kinds : Delete(kind)
    \/ Return

Spec == Init /\ [][Next]_vars

\* ------------------------------------------------------------- claims
\* Each formula reads `last`, the request that has just finished.
Keys(errors) == {e[1] : e \in errors}
IsPositiveInteger(param) == ~Atoi(param).err /\ Atoi(param).val > 0
Decoded(rq) == rq.body # {} /\ rq.validation # "fault"
SaveFailed(rq) ==
    rq.op = "Create" /\ rq.calls # <<>> /\ rq.calls[1].op = "Save"
    /\ rq.calls[1].err # "nil"
Fetched(rq, err) ==
    rq.calls # <<>> /\ rq.calls[Len(rq.calls)] = [op |-> "Only", err |-> err]

\* The fields of `fields` that the payload d does not carry, and a request
\* rejected for each of them before any storage call.
MissingOf(d, fields) ==
    {f \in fields : \/ f = "Name" /\ d.name = {}
                    \/ f = "Age" /\ d.age = {}
                    \/ f = "Owner" /\ d.owner = {}}
RejectsMissing(rq, fields) ==
    \A d \in rq.body : \A f \in MissingOf(d, fields) :
        rq.status = 400 /\ f \in Keys(rq.resp.errors) /\ rq.calls = <<>>

\* The log lines of a request that report a fault.
FaultLines(rq) == SelectSeq(rq.log, LAMBDA line : line.msg # "rendered")

\* The fields of a Pet payload whose validation rule is broken.
Violated(d) ==
    {f \in {"Age", "Owner"} :
        \/ f = "Age" /\ (d.age = {} \/ \E a \in d.age : a <= 0)
        \/ f = "Owner" /\ d.owner = {}}

\* The storage calls of a request: a save first (Create only), then a fetch,
\* none after a call that failed.
CallsInOrder(rq) ==
    /\ Len(rq.calls) <= IF rq.op = "Read" THEN 1 ELSE 2
    /\ \A i \in 1..Len(rq.calls) :
          /\ rq.calls[i].op = IF rq.op = "Create" /\ i = 1 THEN "Save" ELSE "Only"
          /\ i < Len(rq.calls) => rq.calls[i].err = "nil"

\* C1: a Read whose identifier is not a positive integer (not a number, zero
\* or negative) answers 400 and makes no storage call.
C1_BadIdentifierIs400 ==
    (last.op = "Read" /\ ~IsPositiveInteger(last.param))
        => (last.status = 400 /\ last.calls = <<>>)

\* C2 as stated: a Pet Create payload without name, age or owner answers 400
\* with that field in the error map, and makes no storage call.
C2_MissingFieldIs400 ==
    (last.op = "Create" /\ last.kind = "pet" /\ Decoded(last))
        => RejectsMissing(last, {"Name", "Age", "Owner"})

\* C2 amended: a Pet Create payload without age or owner, the fields with a
\* required validation rule, answers 400 with that field in the error map
\* and makes no storage call (a missing name is not caught by validation).
C2_MissingValidatedFieldIs400 ==
    (last.op = "Create" /\ last.kind = "pet" /\ Decoded(last))
        => RejectsMissing(last, {"Age", "Owner"})
C2_Witness ==
    /\ last.op = "Create" /\ last.kind = "pet" /\ last.status = 400
    /\ \E d \in last.body : d.name # {} /\ d.age = {3} /\ d.owner = {}
    /\ "Owner" \in Keys(last.resp.errors)

\* C3: a Create whose reload reports NotFound, the entity having been removed
\* after the save, finishes with one 404 response.
C3_ReloadNotFoundIs404 ==
    (last.op = "Create" /\ Fetched(last, "NotFound"))
        => (last.status = 404 /\ last.writes = 1 /\ ~last.panicked)

\* C4 as stated: a Read of the identifier a Create returned, with no write
\* since that response, yields the entity of the Create response.
C4_ReadEqualsCreateResponse ==
    (last.op = "Read" /\ last.prev # {}) => last.resp.entity = last.prev

\* C4 amended: such a Read yields the entity of the Create response for a
\* Group, a Pet and a User that owns no pet; for a User that owns pets it
\* differs from it in the pets relation alone, which the Read expands to the
\* pets owned and the Create response leaves empty.
C4_ReadEqualsCreateResponseButPets ==
    (last.op = "Read" /\ last.prev # {}) =>
        \A r \in last.resp.entity :
            /\ last.prev = {[r EXCEPT !.edges = {}]}
            /\ r.edges = IF last.kind = "user"
                         THEN {PetView(p) : p \in Owned(r.id)} ELSE {}
C4_Witness ==
    /\ last.op = "Read" /\ last.kind = "user" /\ last.prev # {}
    /\ \E r \in last.resp.entity : r.edges # {}

\* C5: every request that finished wrote exactly one response.
C5_ExactlyOneResponse == last # Idle => last.writes = 1

\* C6: Read answers by the outcome of its fetch: 200 with the entity of that
\* identifier when it was found (and serialized), 404 for NotFound, 400 for
\* NotSingular, 500 for every other storage fault.
C6_ReadStatusByFetchOutcome ==
    (last.op = "Read" /\ last.calls # <<>>) =>
        /\ Len(last.calls) = 1
        /\ (Fetched(last, "nil") /\ last.marshal = "ok") =>
               /\ last.status = 200
               /\ last.resp.entity # {}
               /\ \A r \in last.resp.entity :
                      r.kind = last.kind /\ r.id = Atoi(last.param).val
        /\ Fetched(last, "NotFound") => last.status = 404
        /\ Fetched(last, "NotSingular") => last.status = 400
        /\ Fetched(last, "StorageError") => last.status = 500
        /\ last.status = 200 => Fetched(last, "nil")
C6_Witness ==
    last.op = "Read" /\ Fetched(last, "NotSingular") /\ last.status = 400

\* C7: a request that met a fault logged it exactly once, at info severity
\* when it answered 400 or 404 and at error severity when it answered 500.
C7_FaultLoggedOnceBySeverity ==
    last # Idle =>
        /\ Len(FaultLines(last)) = IF last.status = 200 THEN 0 ELSE 1
        /\ \A i \in 1..Len(FaultLines(last)) :
              FaultLines(last)[i].level =
                  IF last.status \in {400, 404} THEN "info" ELSE "error"

C9_AllViolationsReported ==
    (last.op = "Create" /\ last.kind = "pet" /\ Decoded(last)) =>
        \A d \in last.body :
            Violated(d) # {} =>
                /\ last.status = 400 /\ last.writes = 1
                /\ Keys(last.resp.errors) = Violated(d)
C9_Witness ==
    /\ last.op = "Create" /\ last.kind = "pet" /\ last.status = 400
    /\ last.body = {[name |-> {"Bob"}, age |-> {-2}, owner |-> {}, pets |-> {}]}
    /\ Keys(last.resp.errors) = {"Age", "Owner"}

\* C10: a request makes at most one storage write and then at most one
\* storage read: Create reads only after its save succeeded, Read never
\* writes, and no call follows a failed call.
C10_OneWriteThenOneRead ==
    CallsInOrder(last) /\ \A rq \in inflight : CallsInOrder(rq)
C10_Witness ==
    /\ last.op = "Create" /\ last.status = 200
    /\ Len(last.calls) = 2 /\ last.calls[2].op = "Only"

\* C11: the body of a 500 response is the same whatever internal error the
\* request hit (a failed save or fetch, a validator fault, a serialization
\* fault): every 500 carries the one empty error body, and the request that
\* failed in its save gets the same response under the other save error.
C11_InternalErrorWithheld ==
    last.status = 500 =>
        /\ last.resp = [msg |-> "", errors |-> {}, entity |-> {}]
        /\ SaveFailed(last) =>
               \A fault \in BOOLEAN :
                   LET other == CreateSave(last.kind, last.body, FALSE, fault)
                   IN  other.status = 500 => other.resp = last.resp
C11_Witness ==
    /\ last.op = "Create" /\ last.status = 500 /\ SaveFailed(last)
    /\ last.calls[1].err = "StorageError"
    /\ CreateSave(last.kind, last.body, FALSE, FALSE).status = 500
    /\ CreateSave(last.kind, last.body, FALSE, FALSE).calls[1].err = "ConstraintError"

\* C12: whatever Create requests have run, every stored pet has an age
\* greater than zero and an owner, and that owner is a stored user.
C12_StoredPetsAreValid ==
    \A p \in pets :
        /\ p.age > 0
        /\ \E o \in p.owner : \E u \in users : u.id = o
C12_Witness ==
    /\ last.op = "Create" /\ last.kind = "pet" /\ last.status = 200
    /\ \E p \in pets : p.id = last.eid

\* C13: every successful Read of a user returns, in its pets relation, each
\* pet stored with that user as owner (and nothing else); the Create
\* response of a user and every Read of a pet carry the relations as an
\* empty placeholder, never expanded.
C13_PetsRelationOnUserReadOnly ==
    last.status = 200 =>
        \A r \in last.resp.entity :
            /\ (last.op = "Read" /\ last.kind = "user") =>
                   /\ \A p \in pets : p.owner = {r.id} => PetView(p) \in r.edges
                   /\ r.edges = {PetView(p) : p \in Owned(r.id)}
            /\ (last.op = "Create" /\ last.kind = "user") =>
                   r.hasEdges /\ r.edges = {}
            /\ (last.op = "Read" /\ last.kind = "pet") =>
                   r.hasEdges /\ r.edges = {}
C13_Witness ==
    /\ last.op = "Read" /\ last.kind = "user" /\ last.status = 200
    /\ \E p \in pets : p.owner = {last.eid} /\
          \E r \in last.resp.entity : PetView(p) \in r.edges

\* C14: a Create request adds a row exactly when its save succeeded, and
\* then exactly one, of its kind, under the identifier it reloads; a request
\* that ends at its decoding, its validation or its failed save leaves
\* storage as it was; the reload and the serialization, whatever their
\* outcome, leave storage as it was, the written row included.
C14_CreateWritesIffSaved ==
    [][/\ (last = Idle /\ last'.op = "Create" /\ inflight' = inflight) =>
              UNCHANGED <<groups, users, pets, nextId>>
       /\ \A rq \in inflight' \ inflight :
              /\ ~(\E x \in Table(rq.kind) : x.id = rq.eid)
              /\ \E row \in groups' \cup users' \cup pets' :
                    /\ row.id = rq.eid
                    /\ groups' = IF rq.kind = "group" THEN groups \cup {row}
                                  ELSE groups
                    /\ users' = IF rq.kind = "user" THEN users \cup {row}
                                 ELSE users
                    /\ pets' = IF rq.kind = "pet" THEN pets \cup {row}
                                ELSE pets
       /\ \A rq \in inflight \ inflight' :
              UNCHANGED <<groups, users, pets, nextId>>
       /\ (groups' \cup users' \cup pets') \ (groups \cup users \cup pets) # {}
              => inflight' \ inflight # {}
      ]_vars
C14_Witness ==
    /\ last.op = "Create" /\ Len(last.calls) = 2
    /\ last.status = 500 /\ last.marshal = "fault"
    /\ \E x \in Table(last.kind) : x.id = last.eid

\* C15: a Read leaves storage as it was, and the same Read repeated on the
\* storage it leaves, meeting the same outcome of the fetch and of the
\* serialization, gets the same status and the same response.
C15_ReadIsPure ==
    [][(last = Idle /\ last'.op = "Read") =>
          /\ UNCHANGED <<groups, users, pets, nextId>>
          /\ \A kind \in Kinds, param \in IdParams,
                fault \in Faults, mfault \in BOOLEAN :
                LET first == ReadHandler(kind, param, fault, mfault)
                    again == ReadHandler(kind, param, fault, mfault)'
                IN  (kind = last'.kind /\ param = last'.param
                     /\ first.status = last'.status /\ first.resp = last'.resp
                     /\ first.calls = last'.calls /\ first.marshal = last'.marshal)
                    => (again.status = last'.status /\ again.resp = last'.resp)
      ]_vars
C15_Witness ==
    /\ last.op = "Read" /\ last.kind = "pet" /\ last.status = 200
    /\ \E x \in pets : x.id = last.eid /\ last.resp.entity = {PetView(x)}
====
